---------------------------- MODULE Spec2Model ----------------------------
(* sync_firebase.py: replication of time-ordered sensor samples from a     *)
(* paginated HTTP source into a Firebase store keyed by created_at.        *)
(* Strings the program compares or rewrites (created_at, store keys) are   *)
(* sequences of character codes; Python's string order is StrLess.         *)
EXTENDS Integers, Sequences, FiniteSets, TLC

(* ------------------------------ bounds --------------------------------- *)
MaxNewestPage == 2    \* longest page answering a fetch without a cursor
MaxOlderPage == 1     \* longest page answering a fetch with before_created_at
EndlessTop == 1100    \* newest sample (second of the hour) of the endless source
MaxFeed == 4          \* most samples the database source ever holds
MaxFeedPage == 2      \* samples in a full page of the database source

(* -------------------------- character codes ---------------------------- *)
Dash == 45
Dot == 46
Colon == 58

Digits2(n) == <<48 + (n \div 10), 48 + (n % 10)>>

\* "2025-MM-DDT00:mm<sep>ssZ"
Stamp(mo, dd, mi, sep, ss) ==
    <<50, 48, 50, 53, Dash>> \o Digits2(mo) \o <<Dash>> \o Digits2(dd)
        \o <<84, 48, 48, Colon>> \o Digits2(mi) \o <<sep>> \o Digits2(ss) \o <<90>>

\* "2025-10-01T00:00:00Z"
EARLIEST_DATE ==
    <<50, 48, 50, 53, 45, 49, 48, 45, 48, 49, 84, 48, 48, 58, 48, 48, 58, 48, 48, 90>>

SAFETY_LIMIT == 1000

\* Python None; also the falsy empty string
None == <<>>

(* ---------------------- Python string comparison ----------------------- *)
MinOf(a, b) == IF a < b THEN a ELSE b

\* a < b on str: first differing code decides, a proper prefix is smaller
StrLess(a, b) ==
    \/ \E i \in 1..MinOf(Len(a), Len(b)) :
          /\ a[i] < b[i]
          /\ \A j \in 1..(i - 1) : a[j] = b[j]
    \/ /\ Len(a) < Len(b)
       /\ \A j \in 1..Len(a) : a[j] = b[j]

StrLeq(a, b) == a = b \/ StrLess(a, b)

(* --------------------------- the source's data ------------------------- *)
\* created_at values the modelled source can serve: one before the floor,
\* the floor itself, two after it that differ only in a separator
Timestamps ==
    { Stamp(9, 30, 0, Colon, 0),
      EARLIEST_DATE,
      Stamp(10, 1, 1, Dot, 0),
      Stamp(10, 1, 1, Colon, 0) }

GoodValue == "{\"temperature\": 21, \"humidity\": 40, \"soil\": 7, \"light\": 3}"
NoSoilValue == "{\"temperature\": 21, \"humidity\": 40}"
GarbageValue == "<html>"

\* every timestamp with a good value, one of them also with a bad value
Samples ==
    [created_at : Timestamps, value : {GoodValue}]
        \cup [created_at : {Stamp(10, 1, 1, Dot, 0)}, value : {NoSoilValue}]

RECURSIVE SeqsUpTo(_, _)
SeqsUpTo(S, n) ==
    IF n = 0 THEN {<<>>}
    ELSE LET shorter == SeqsUpTo(S, n - 1)
         IN  shorter \cup {Append(p, s) : p \in {q \in shorter : Len(q) = n - 1}, s \in S}

NewestPages == SeqsUpTo(Samples, MaxNewestPage)
OlderPages == SeqsUpTo(Samples, MaxOlderPage)

\* the samples of the corrupting source: two with a good value, and one
\* whose value lacks a field or is not JSON at all
CorruptSamples ==
    [created_at : {EARLIEST_DATE, Stamp(10, 1, 1, Colon, 0)}, value : {GoodValue}]
        \cup [created_at : {Stamp(10, 1, 1, Dot, 0)},
              value : {NoSoilValue, GarbageValue}]

CorruptNewestPages == SeqsUpTo(CorruptSamples, MaxNewestPage)
CorruptOlderPages == SeqsUpTo(CorruptSamples, MaxOlderPage)

\* what fetch_batch can come back with: an exception (transport error or a
\* body that is not JSON), a JSON body without "data", or a page
Unavailable == [kind |-> "raise", data |-> <<>>]
Malformed == [kind |-> "nodata", data |-> <<>>]
PageOf(p) == [kind |-> "data", data |-> p]

(* the endless source: one sample per second of 2025-10-02T00, each paged  *)
(* fetch returns the sample just before the cursor                         *)
EndlessStamp(n) == Stamp(10, 2, n \div 60, Colon, n % 60)

EndlessSecond(c) ==
    ((c[15] - 48) * 10 + (c[16] - 48)) * 60 + (c[18] - 48) * 10 + (c[19] - 48)

EndlessSample(n) == [created_at |-> EndlessStamp(n), value |-> GoodValue]

\* "arbitrary": any answer at any time; "frozen": any answer, but the same
\* one whenever the cursor is asked again; "corrupt": any answer made of
\* CorruptSamples; "endless": see above
SourceResponses(kind, cursor) ==
    IF kind = "endless"
    THEN IF cursor = None THEN {PageOf(<<EndlessSample(EndlessTop)>>)}
         ELSE IF EndlessSecond(cursor) > 0
              THEN {PageOf(<<EndlessSample(EndlessSecond(cursor) - 1)>>)}
              ELSE {PageOf(<<>>)}
    ELSE IF kind = "corrupt"
    THEN {Unavailable, Malformed} \cup
         {PageOf(p) : p \in IF cursor = None THEN CorruptNewestPages
                                             ELSE CorruptOlderPages}
    ELSE {Unavailable, Malformed} \cup
         {PageOf(p) : p \in IF cursor = None THEN NewestPages ELSE OlderPages}

(* the database source: it holds the samples of seconds 0..feed-1 of       *)
(* 2025-10-02T00, only ever gains newer ones, and answers a fetch with the *)
(* newest MaxFeedPage samples older than the cursor, newest first; the     *)
(* "inclusive" one takes before_created_at as "at or before"               *)
FeedKinds == {"database", "inclusive"}

FeedPage(kind, n, cursor) ==
    LET below == IF cursor = None THEN n - 1
                 ELSE IF kind = "inclusive" THEN EndlessSecond(cursor)
                 ELSE EndlessSecond(cursor) - 1
        top == MinOf(n - 1, below)
    IN  [i \in 1..MinOf(MaxFeedPage, top + 1) |-> EndlessSample(top - i + 1)]

(* --------------------------- Record Transform -------------------------- *)
\* json.loads(sample['value'])
JsonParses(v) == v \in {GoodValue, NoSoilValue}

json_loads(v) ==
    IF v = GoodValue
    THEN [f \in {"temperature", "humidity", "soil", "light"} |->
            CASE f = "temperature" -> 21 [] f = "humidity" -> 40
              [] f = "soil" -> 7 [] OTHER -> 3]
    ELSE [f \in {"temperature", "humidity"} |->
            IF f = "temperature" THEN 21 ELSE 40]

\* the sample goes through lines 54-62 without json.loads or a key lookup raising
Decodes(sample) ==
    /\ JsonParses(sample.value)
    /\ {"temperature", "humidity", "soil"} \subseteq DOMAIN json_loads(sample.value)

Replace(s, from, to) == [i \in 1..Len(s) |-> IF s[i] = from THEN to ELSE s[i]]

\* sample['created_at'].replace(':', '-').replace('.', '-')
RecordKey(created_at) == Replace(Replace(created_at, Colon, Dash), Dot, Dash)

SensorRecord(sample) ==
    LET sensor_values == json_loads(sample.value)
    IN  [created_at |-> sample.created_at,
         temperature |-> sensor_values["temperature"],
         humidity |-> sensor_values["humidity"],
         soil |-> sensor_values["soil"]]

(* ----------------------------- Store Adapter --------------------------- *)
EmptyStore == <<>>

\* a store that adds a child under a fresh key on every write, as push() does
UpsertPush(st, sample) ==
    LET timestamp_key ==
            RecordKey(sample.created_at) \o <<48 + Cardinality(DOMAIN st)>>
    IN  (timestamp_key :> SensorRecord(sample)) @@ st

\* ref.child(timestamp_key).set(record)
Upsert(st, sample) ==
    LET timestamp_key == RecordKey(sample.created_at)
    IN  (timestamp_key :> SensorRecord(sample)) @@ st

\* a loop body that catches the exception of a sample and goes on
SaveSampleSkip(st, sample) ==
    [raises |-> FALSE,
     store |-> IF Decodes(sample) THEN Upsert(st, sample) ELSE st]

\* one pass of the loop of lines 53-65: json.loads or a field lookup raises
\* before anything is written, or the record is set under its key
SaveSample(st, sample) ==
    [raises |-> ~Decodes(sample),
     store |-> IF Decodes(sample) THEN Upsert(st, sample) ELSE st]

\* order_by_child('created_at').limit_to_last(1): the greatest created_at
LatestStored(st) ==
    IF DOMAIN st = {} THEN None
    ELSE LET k == CHOOSE k1 \in DOMAIN st :
                    \A k2 \in DOMAIN st : StrLeq(st[k2].created_at, st[k1].created_at)
         IN  st[k].created_at

\* get_latest_timestamp_from_firebase: an exception of the query is caught
\* and None returned
get_latest_timestamp_from_firebase(st, queryFails) ==
    IF queryFails THEN None ELSE LatestStored(st)

(* ------------------------------ Sync Engine ---------------------------- *)
\* the filter without its upper bound
FilterBatchNoUpper(data, before_timestamp) ==
    SelectSeq(data, LAMBDA sample : StrLeq(EARLIEST_DATE, sample.created_at))

\* the list comprehension of lines 116-118
FilterBatch(data, before_timestamp) ==
    SelectSeq(data, LAMBDA sample :
        /\ StrLeq(EARLIEST_DATE, sample.created_at)
        /\ StrLess(sample.created_at, before_timestamp))

\* the list comprehension of line 108
FloorFilter(data) ==
    SelectSeq(data, LAMBDA sample : StrLeq(EARLIEST_DATE, sample.created_at))

\* the loop of lines 151-156 over the rest of the page
RECURSIVE ScanPage(_, _)
ScanPage(data, latest) ==
    IF data = <<>> THEN <<>>
    ELSE IF StrLess(latest, Head(data).created_at)
         THEN <<Head(data)>> \o ScanPage(Tail(data), latest)
         ELSE <<>>

\* the scan that skips an old sample and goes on instead of returning
download_new_data_skip(data, latest) ==
    SelectSeq(data, LAMBDA sample : StrLess(latest, sample.created_at))

\* download_new_data on the page it fetched, lines 151-159
download_new_data(data, latest) == ScanPage(data, latest)



\* "data" in response
HasData(response) == response.kind = "data"

\* a first fetch that is issued again until it brings samples
FirstPageRetry(response) ==
    IF HasData(response) /\ Len(response.data) > 0 THEN "A_loop" ELSE "A_first"

\* lines 80-88: without "data" download_all_data returns [] to main, with
\* it the page is taken and the loop entered
FirstPageNext(response) == IF HasData(response) THEN "A_loop" ELSE "A_save"

\* the iteration that gives up like line 82 when the page has no data
AccumulateOrDrop(data, response, before_timestamp) ==
    IF response.kind = "data" /\ Len(response.data) > 0
    THEN data \o FilterBatch(response.data, before_timestamp)
    ELSE <<>>

\* lines 113-132: what the iteration leaves in all_data
Accumulate(data, response, before_timestamp) ==
    IF HasData(response) /\ Len(response.data) > 0
    THEN data \o FilterBatch(response.data, before_timestamp)
    ELSE data

\* a fetch_batch that swallows the exception and returns an empty dict
RaisesNever(response) == FALSE

\* requests.get or response.json() raises; nothing in main catches it
Raises(response) == response.kind = "raise"

\* the loop without its safety valve
SafetyLimitNever(count) == FALSE

\* the safety valve of line 134
SafetyLimitReached(count) == count > SAFETY_LIMIT

(* ------------------------------- state --------------------------------- *)
VARIABLES
    store,              \* /sensor_data: key -> record
    pc,                 \* position of main()
    latest_timestamp,   \* main's latest_timestamp
    all_data,           \* download_all_data
    previous_oldest,
    stuck_count,
    batch_count,
    before_timestamp,
    new_data,           \* download_new_data's result
    saved_count,        \* save_to_firebase
    sourceKind,         \* which remote source answers
    feed,               \* how many samples the database source holds
    served,             \* the answers a frozen source has given, by cursor
    mode,               \* history: "A", "B" or "none" between runs
    store0,             \* history: the store when the run started
    written,            \* history: samples upserted by the run, in order
    fetches,            \* history: fetch_batch calls of the run
    newest,             \* history: the newest page the run was served
    offered,            \* history: created_at values the run was served
    unavailable,        \* history: a fetch of the run met a transport error
    lastOldest,         \* history: created_at ending the latest non-empty page
    repeated,           \* history: a page ended where the page before it did
    descending,         \* history: every page of the run was newest first
    pageBelowFloor,     \* history: the latest page held a sample below the floor
    afterRepeat,        \* history: fetches issued after that
    gathered,           \* history: all_data when a paged fetch brought no sample
    exit,               \* history: how the Mode A loop ended
    error,              \* history: the exception that ended the run
    prev                \* history: summary of the previous run

vars == <<store, pc, latest_timestamp, all_data, previous_oldest, stuck_count,
          batch_count, before_timestamp, new_data, saved_count, sourceKind, feed,
          served, mode, store0, written, fetches, newest, offered, unavailable,
          lastOldest, repeated, descending, pageBelowFloor, afterRepeat,
          gathered, exit, error, prev>>

\* what every fetch records
fetchlog == <<served, fetches, offered, unavailable, lastOldest, repeated,
              descending, pageBelowFloor, afterRepeat>>

locals == <<all_data, previous_oldest, stuck_count, batch_count,
            before_timestamp, new_data, saved_count>>

NoServed == <<>>

\* prev.backfill: the previous run was Mode A, started on an empty store and
\* completed; prev.offered, prev.keys: the created_at values that run was
\* served and the keys of the samples it collected
NoPrev == [mode |-> "none", backfill |-> FALSE, offered |-> {}, keys |-> {}]

InitWith(kind) ==
    /\ store = EmptyStore
    /\ pc = "idle"
    /\ latest_timestamp = None
    /\ all_data = <<>>
    /\ previous_oldest = None
    /\ stuck_count = 0
    /\ batch_count = 0
    /\ before_timestamp = None
    /\ new_data = <<>>
    /\ saved_count = 0
    /\ sourceKind = kind
    /\ feed \in IF kind \in FeedKinds THEN 0..MaxFeed ELSE {0}
    /\ served = NoServed
    /\ mode = "none"
    /\ store0 = EmptyStore
    /\ written = <<>>
    /\ fetches = 0
    /\ newest = <<>>
    /\ offered = {}
    /\ unavailable = FALSE
    /\ lastOldest = None
    /\ repeated = FALSE
    /\ descending = TRUE
    /\ pageBelowFloor = FALSE
    /\ afterRepeat = 0
    /\ gathered = <<>>
    /\ exit = "none"
    /\ error = "none"
    /\ prev = NoPrev

Init == InitWith("arbitrary")

StampsOf(data) == {data[i].created_at : i \in 1..Len(data)}

KeysOf(data) == {RecordKey(data[i].created_at) : i \in 1..Len(data)}

\* the page is in descending order of created_at (equal neighbours allowed)
IsDescending(data) ==
    \A i \in 1..(Len(data) - 1) :
        StrLeq(data[i + 1].created_at, data[i].created_at)

\* the answers the source can give to fetch_batch(cursor) now
Answers(cursor) ==
    IF sourceKind = "frozen" /\ cursor \in DOMAIN served
    THEN {served[cursor]}
    ELSE IF sourceKind \in FeedKinds
    THEN {PageOf(FeedPage(sourceKind, feed, cursor))}
    ELSE SourceResponses(sourceKind, cursor)

\* fetch_batch(cursor) comes back with response
Fetch(cursor, response) ==
    /\ response \in Answers(cursor)
    /\ served' = IF sourceKind = "frozen"
                 THEN (cursor :> response) @@ served
                 ELSE served
    /\ fetches' = fetches + 1
    /\ offered' = offered \cup StampsOf(response.data)
    /\ unavailable' = (unavailable \/ response.kind = "raise")
    /\ LET page == response.data
           oldest == IF page = <<>> THEN None ELSE page[Len(page)].created_at
       IN  /\ lastOldest' = IF page = <<>> THEN lastOldest ELSE oldest
           /\ repeated' = (repeated \/ (page # <<>> /\ oldest = lastOldest))
           /\ descending' = (descending /\ IsDescending(page))
           /\ pageBelowFloor' =
                 \E i \in 1..Len(page) : StrLess(page[i].created_at, EARLIEST_DATE)
    /\ afterRepeat' = IF repeated THEN afterRepeat + 1 ELSE 0

(* ------------------------------- main() -------------------------------- *)
\* lines 168-187: read the watermark, choose the mode
StartRun(queryFails) ==
    /\ pc = "idle"
    /\ latest_timestamp' = get_latest_timestamp_from_firebase(store, queryFails)
    /\ mode' = IF latest_timestamp' # None THEN "B" ELSE "A"
    /\ pc' = IF latest_timestamp' # None THEN "B_fetch" ELSE "A_first"
    /\ store0' = store
    /\ UNCHANGED <<store, locals, sourceKind, feed, fetchlog, written, newest,
                   gathered, exit, error, prev>>

\* download_all_data, lines 75-88
A_FirstFetch ==
    /\ pc = "A_first"
    /\ \E response \in Answers(None) :
        /\ Fetch(None, response)
        /\ newest' = response.data
        /\ IF Raises(response)
           THEN /\ pc' = "aborted"
                /\ error' = "SourceUnavailable"
                /\ UNCHANGED <<all_data, batch_count, exit>>
           ELSE /\ pc' = FirstPageNext(response)
                /\ exit' = IF HasData(response) THEN exit ELSE "first_malformed"
                /\ all_data' = IF HasData(response) THEN response.data ELSE all_data
                /\ batch_count' = IF HasData(response) THEN 1 ELSE batch_count
                /\ UNCHANGED error
    /\ UNCHANGED <<store, latest_timestamp, previous_oldest, stuck_count,
                   before_timestamp, new_data, saved_count, sourceKind, feed, mode,
                   store0, written, gathered, prev>>

\* lines 90-109: the head of one loop iteration, up to the fetch
A_LoopHead ==
    /\ pc = "A_loop"
    /\ IF all_data = <<>>
       THEN /\ pc' = "A_save"
            /\ exit' = "empty"
            /\ UNCHANGED <<all_data, previous_oldest, stuck_count, before_timestamp>>
       ELSE LET before == all_data[Len(all_data)].created_at
                stuck == IF before = previous_oldest THEN stuck_count + 1 ELSE 0
            IN  /\ before_timestamp' = before
                /\ stuck_count' = stuck
                /\ IF before = previous_oldest /\ stuck >= 2
                   THEN /\ pc' = "A_save"
                        /\ exit' = "stuck"
                        /\ UNCHANGED <<all_data, previous_oldest>>
                   ELSE /\ previous_oldest' = before
                        /\ IF StrLeq(before, EARLIEST_DATE)
                           THEN /\ all_data' = FloorFilter(all_data)
                                /\ pc' = "A_save"
                                /\ exit' = "floor"
                           ELSE /\ pc' = "A_fetch"
                                /\ UNCHANGED <<all_data, exit>>
    /\ UNCHANGED <<store, latest_timestamp, batch_count, new_data, saved_count,
                   sourceKind, feed, fetchlog, mode, store0, written, newest,
                   gathered, error, prev>>

\* lines 111-136: the paged fetch and the rest of the iteration
A_PagedFetch ==
    /\ pc = "A_fetch"
    /\ \E response \in Answers(before_timestamp) :
        /\ Fetch(before_timestamp, response)
        /\ gathered' = IF response.kind # "raise" /\ response.data = <<>>
                       THEN all_data ELSE gathered
        /\ IF Raises(response)
           THEN /\ pc' = "aborted"
                /\ error' = "SourceUnavailable"
                /\ UNCHANGED <<all_data, batch_count, exit>>
           ELSE /\ all_data' = Accumulate(all_data, response, before_timestamp)
                /\ error' = error
                /\ IF HasData(response) /\ Len(response.data) > 0
                   THEN LET filtered_batch ==
                                FilterBatch(response.data, before_timestamp)
                        IN  /\ batch_count' = batch_count + 1
                            /\ IF filtered_batch # <<>>
                               THEN IF Len(filtered_batch) < Len(response.data)
                                    THEN pc' = "A_save" /\ exit' = "horizon"
                                    ELSE IF SafetyLimitReached(batch_count')
                                    THEN pc' = "A_save" /\ exit' = "valve"
                                    ELSE pc' = "A_loop" /\ exit' = exit
                               ELSE pc' = "A_save" /\ exit' = "no_new"
                   ELSE /\ pc' = "A_save"
                        /\ exit' = "source_end"
                        /\ batch_count' = batch_count
    /\ UNCHANGED <<store, latest_timestamp, previous_oldest, stuck_count,
                   before_timestamp, new_data, saved_count, sourceKind, feed, mode,
                   store0, written, newest, prev>>

\* save_to_firebase(data_list), one pass of its loop per step: the sample
\* is decoded and upserted, or json.loads or a field lookup raises; after
\* the last sample main prints its summary and returns
SaveStep(data_list) ==
    /\ IF saved_count = Len(data_list)
       THEN /\ pc' = "done"
            /\ UNCHANGED <<store, saved_count, written, error>>
       ELSE LET sample == data_list[saved_count + 1]
                saved == SaveSample(store, sample)
            IN  IF ~saved.raises
                THEN /\ store' = saved.store
                     /\ saved_count' = saved_count + 1
                     /\ written' = Append(written, sample)
                     /\ UNCHANGED <<pc, error>>
                ELSE /\ pc' = "aborted"
                     /\ error' = "DecodeError"
                     /\ UNCHANGED <<store, saved_count, written>>
    /\ UNCHANGED <<latest_timestamp, all_data, previous_oldest, stuck_count,
                   batch_count, before_timestamp, new_data, sourceKind, feed,
                   fetchlog, mode, store0, newest, gathered, exit, prev>>

\* main, lines 187-199: save what download_all_data returned
A_Save ==
    /\ pc = "A_save"
    /\ SaveStep(all_data)

\* download_new_data, lines 143-159
B_Fetch ==
    /\ pc = "B_fetch"
    /\ \E response \in Answers(None) :
        /\ Fetch(None, response)
        /\ newest' = response.data
        /\ IF Raises(response)
           THEN /\ pc' = "aborted"
                /\ error' = "SourceUnavailable"
                /\ UNCHANGED new_data
           ELSE /\ new_data' = IF HasData(response)
                                THEN download_new_data(response.data, latest_timestamp)
                                ELSE <<>>
                /\ pc' = "B_save"
                /\ UNCHANGED error
    /\ UNCHANGED <<store, latest_timestamp, all_data, previous_oldest,
                   stuck_count, batch_count, before_timestamp, saved_count,
                   sourceKind, feed, mode, store0, written, gathered, exit, prev>>

\* main, lines 177-182
B_Save ==
    /\ pc = "B_save"
    /\ SaveStep(new_data)

\* the process exits; the next run starts from the store it left
EndRun ==
    /\ pc \in {"done", "aborted"}
    /\ pc' = "idle"
    /\ LET backfill == mode = "A" /\ store0 = EmptyStore /\ pc = "done"
       IN  prev' = [mode |-> mode, backfill |-> backfill,
                    offered |-> IF backfill THEN offered ELSE {},
                    keys |-> IF backfill THEN KeysOf(all_data) ELSE {}]
    /\ mode' = "none"
    /\ latest_timestamp' = None
    /\ all_data' = <<>>
    /\ previous_oldest' = None
    /\ stuck_count' = 0
    /\ batch_count' = 0
    /\ before_timestamp' = None
    /\ new_data' = <<>>
    /\ saved_count' = 0
    /\ store0' = store
    /\ written' = <<>>
    /\ fetches' = 0
    /\ newest' = <<>>
    /\ offered' = {}
    /\ unavailable' = FALSE
    /\ lastOldest' = None
    /\ repeated' = FALSE
    /\ descending' = TRUE
    /\ pageBelowFloor' = FALSE
    /\ afterRepeat' = 0
    /\ gathered' = <<>>
    /\ exit' = "none"
    /\ error' = "none"
    /\ feed' \in IF sourceKind \in FeedKinds THEN feed..MaxFeed ELSE {feed}
    /\ UNCHANGED <<store, sourceKind, served>>

Next ==
    \/ \E queryFails \in BOOLEAN : StartRun(queryFails)
    \/ A_FirstFetch
    \/ A_LoopHead
    \/ A_PagedFetch
    \/ A_Save
    \/ B_Fetch
    \/ B_Save
    \/ EndRun

Spec == Init /\ [][Next]_vars

\* the same program against a source that never changes its answers
InitFrozen == InitWith("frozen")
SpecFrozen == InitFrozen /\ [][Next]_vars

\* the same program against the endless source
InitEndless == InitWith("endless")
SpecEndless == InitEndless /\ [][Next]_vars

\* the same program against the corrupting source
InitCorrupt == InitWith("corrupt")
SpecCorrupt == InitCorrupt /\ [][Next]_vars

\* the same program against the database source
InitDatabase == InitWith("database")
SpecDatabase == InitDatabase /\ [][Next]_vars

\* the same program against the database source with the inclusive cursor
InitInclusive == InitWith("inclusive")
SpecInclusive == InitInclusive /\ [][Next]_vars

TypeOK ==
    /\ pc \in {"idle", "A_first", "A_loop", "A_fetch", "A_save", "B_fetch",
               "B_save", "done", "aborted"}
    /\ mode \in {"none", "A", "B"}
    /\ stuck_count \in 0..2
    /\ batch_count \in 0..(SAFETY_LIMIT + 1)

(* ------------------------------ properties ----------------------------- *)
RunEnded == pc \in {"done", "aborted"}

BelowFloor(created_at) == StrLess(created_at, EARLIEST_DATE)

\* the samples of page that precede, in page order, the first one whose
\* created_at is not after watermark
BeforeBoundary(page, watermark) ==
    LET old == {i \in 1..Len(page) : StrLeq(page[i].created_at, watermark)}
        cut == IF old = {} THEN Len(page) + 1
               ELSE CHOOSE i \in old : \A j \in old : i <= j
    IN  SubSeq(page, 1, cut - 1)

\* the samples of data that come before the first one that fails to decode
Writable(data) ==
    LET failing == {i \in 1..Len(data) : ~Decodes(data[i])}
        cut == IF failing = {} THEN Len(data) + 1
               ELSE CHOOSE i \in failing : \A j \in failing : i <= j
    IN  SubSeq(data, 1, cut - 1)

StoredStamps == {store[k].created_at : k \in DOMAIN store}

\* C1: no sample a Mode A run upserts has created_at below EARLIEST_DATE,
\* whatever the source answers and however the loop ends.
C1_DateFloor ==
    mode = "A" => \A i \in 1..Len(written) : ~BelowFloor(written[i].created_at)

\* C2: a Mode B run collects exactly the samples of the newest page that come
\* before the first one with created_at <= watermark, and a run that
\* completes has upserted exactly those (a run a decode error aborts has
\* upserted the ones before the failing sample); nothing at or after the
\* boundary is written.
C2_IncrementalBoundary ==
    (mode = "B" /\ (pc = "B_save" \/ RunEnded) /\ ~unavailable) =>
        LET expected == BeforeBoundary(newest, latest_timestamp)
        IN  /\ new_data = expected
            /\ pc = "done" => written = expected
            /\ pc = "aborted" => written = Writable(expected)

\* a completed Mode B run that wrote the samples before a boundary inside the page
C2_Witness ==
    /\ mode = "B"
    /\ pc = "done"
    /\ written # <<>>
    /\ Len(written) < Len(newest)
    /\ StrLeq(newest[Len(written) + 1].created_at, latest_timestamp)

\* C3: a Mode A run that follows a Mode A run against a source that answers
\* every fetch as before ends with the store exactly as the earlier run left
\* it: the same keys and the same record under every key.
C3_Idempotent ==
    (sourceKind = "frozen" /\ mode = "A" /\ prev.mode = "A" /\ RunEnded) =>
        store = store0

\* a second Mode A run that upserted samples over the ones of the first
C3_Witness ==
    /\ sourceKind = "frozen"
    /\ mode = "A"
    /\ prev.mode = "A"
    /\ pc = "done"
    /\ Len(written) >= 2
    /\ store0 # EmptyStore

C5_StoredOnce ==
    /\ \A k \in DOMAIN store : RecordKey(store[k].created_at) = k
    /\ \A k1, k2 \in DOMAIN store :
          store[k1].created_at = store[k2].created_at => k1 = k2

\* a run upserted a sample whose created_at the store already held
C5_Witness ==
    /\ RunEnded
    /\ \E i \in 1..Len(written) :
          /\ RecordKey(written[i].created_at) \in DOMAIN store0
          /\ store0[RecordKey(written[i].created_at)].created_at =
                written[i].created_at

\* C6: once a fetch returns a page that ends with the created_at the page
\* before it ended with, the Mode A loop issues at most 2 more fetches (in
\* fact none: the loop is over) and the run goes on to save what it
\* collected.
C6_StuckTermination ==
    repeated =>
        /\ afterRepeat <= 2
        /\ pc \in {"A_save", "done", "aborted"}
        /\ pc = "done" => written = all_data

\* two consecutive paged fetches ended with the same created_at and the run
\* saved what it had
C6_Witness ==
    /\ repeated
    /\ fetches >= 3
    /\ pc = "done"
    /\ written # <<>>

\* C7 as stated: no run issues more than 1000 page fetches.
C7_AtMostLimitFetches == fetches <= SAFETY_LIMIT

\* C7 amended: the loop ends once batch_count exceeds 1000, that is after the
\* first fetch and 1000 paged fetches; no run issues more than 1001 fetches.
C7_SafetyValve ==
    /\ fetches <= SAFETY_LIMIT + 1
    /\ fetches = SAFETY_LIMIT + 1 => pc \notin {"A_loop", "A_fetch"}

\* the valve ended the loop of a run against the endless source
C7_Witness ==
    /\ exit = "valve"
    /\ fetches = SAFETY_LIMIT + 1
    /\ pc = "A_save"

\* C8: a run is in Mode A exactly when the store was empty when it started,
\* and in Mode B exactly when the store held a record.
C8_ModeSelection ==
    /\ mode = "A" => store0 = EmptyStore
    /\ mode = "B" => store0 # EmptyStore

\* C9: when a paged fetch returns a page without data or an empty page, the
\* loop stops with everything collected before it, and the run upserts all
\* of it (up to a sample that fails to decode, which aborts the run).
C9_SourceEndKeepsData ==
    exit = "source_end" =>
        /\ all_data = gathered
        /\ pc \in {"A_save", "done", "aborted"}
        /\ pc = "done" => written = gathered
        /\ pc = "aborted" => written = Writable(gathered)

\* the loop ended on such a page after two pages of samples, all of them saved
C9_Witness ==
    /\ exit = "source_end"
    /\ pc = "done"
    /\ fetches >= 3
    /\ Len(written) >= 2

\* C10: a run in which a fetch met a transport error or a body that is not
\* JSON ends in an error outcome with the store as it was when the run
\* started; and no run upserts anything before its last fetch.
C10_UnavailableAborts ==
    /\ unavailable => (pc = "aborted" /\ store = store0 /\ written = <<>>)
    /\ pc \in {"A_first", "A_loop", "A_fetch", "B_fetch"} => store = store0

\* a paged fetch failed after samples had been collected
C10_Witness ==
    /\ unavailable
    /\ mode = "A"
    /\ fetches >= 2
    /\ all_data # <<>>
    /\ store0 # EmptyStore

\* what the run collected to save
Collected == IF mode = "A" THEN all_data ELSE new_data

\* C11: when a collected sample has a value that json.loads rejects or that
\* lacks temperature, humidity or soil, the run never completes normally: it
\* ends in DecodeError having written exactly the samples that precede the
\* first such sample in collected order, so neither that sample nor any
\* sample after it is written.
C11_DecodeErrorAborts ==
    (pc \in {"A_save", "B_save", "done", "aborted"} /\ ~unavailable
        /\ Writable(Collected) # Collected) =>
        LET writable == Writable(Collected)
        IN  /\ pc # "done"
            /\ Len(written) <= Len(writable)
            /\ written = SubSeq(writable, 1, Len(written))
            /\ pc = "aborted" => (error = "DecodeError" /\ written = writable)

\* a run wrote a sample, failed on one whose value is not JSON and left a
\* third one unwritten
C11_Witness ==
    /\ pc = "aborted"
    /\ error = "DecodeError"
    /\ written # <<>>
    /\ Len(written) + 1 < Len(Collected)
    /\ ~JsonParses(Collected[Len(written) + 1].value)

\* C12: a Mode A run whose first fetch returned no samples (a body without
\* "data" or an empty page) issues no other fetch and writes nothing.
C12_FirstPageFailure ==
    (mode = "A" /\ fetches >= 1 /\ newest = <<>>) =>
        /\ fetches = 1
        /\ written = <<>>
        /\ store = store0
        /\ pc \in {"A_loop", "A_save", "done", "aborted"}

\* a run whose first page was empty ended without a write
C12_Witness ==
    /\ mode = "A"
    /\ exit = "empty"
    /\ pc = "done"
    /\ fetches = 1

\* C13: when the Mode A loop ends because the filtered batch is smaller than
\* the page it was filtered from, that page held a sample with created_at
\* below EARLIEST_DATE.
C13_HorizonIsFloor == exit = "horizon" => pageBelowFloor

\* C14: after a completed Mode A run on an empty store and a completed Mode B
\* run against the database source, every sample the source held when the
\* Mode B run started is in the store (all of them are above EARLIEST_DATE).
C14_Complete ==
    (sourceKind = "database" /\ mode = "B" /\ prev.backfill /\ pc = "done") =>
        \A n \in 0..(feed - 1) : RecordKey(EndlessStamp(n)) \in DOMAIN store

\* C15: within a Mode A run the cursor of every paged fetch is strictly less
\* than the cursor of the paged fetch before it, whatever the source answers
\* (before_timestamp still holds the earlier cursor when the loop head picks
\* the next one); the cursor never repeats.
C15_CursorMonotone ==
    [][(pc = "A_loop" /\ pc' = "A_fetch" /\ before_timestamp # None) =>
           StrLess(before_timestamp', before_timestamp)]_vars

\* a run about to issue its second paged fetch
C15_Witness ==
    /\ mode = "A"
    /\ pc = "A_fetch"
    /\ fetches = 2
    /\ StrLess(before_timestamp, newest[Len(newest)].created_at)

\* C16: every paged fetch of Mode A uses a cursor strictly greater than
\* EARLIEST_DATE, and no fetch is issued once a page of the run has held a
\* sample with created_at below EARLIEST_DATE.
C16_NoFetchBelowHorizon ==
    pc = "A_fetch" =>
        /\ StrLess(EARLIEST_DATE, before_timestamp)
        /\ \A t \in offered : ~BelowFloor(t)

\* C17: while every page the source has returned to a Mode A run is in
\* descending order of created_at, every step leaves all_data in descending
\* order, and every sample a paged fetch appends is strictly older than
\* every sample collected before that fetch, so the sample at the cursor is
\* not collected again.
C17_NewestFirst ==
    [][(mode' = "A" /\ descending') =>
           /\ IsDescending(all_data')
           /\ pc = "A_fetch" =>
                 \A j \in (Len(all_data) + 1)..Len(all_data') :
                     \A i \in 1..Len(all_data) :
                         StrLess(all_data'[j].created_at, all_data[i].created_at)]_vars

\* a paged fetch appended an older sample to a first page of two samples,
\* every page having been in descending order
C17_Witness ==
    /\ mode = "A"
    /\ descending
    /\ pc = "A_loop"
    /\ Len(newest) = 2
    /\ Len(all_data) = 3

\* C18: the stuck counter is 0 in every state of the Mode A loop and the
\* loop never ends through the stuck-detection exit, whatever the source
\* answers: the cursor compared at line 96 always differs from
\* previous_oldest.
C18_StuckCounterZero ==
    /\ stuck_count = 0
    /\ exit # "stuck"
    /\ pc = "A_loop" =>
          (all_data = <<>> \/ all_data[Len(all_data)].created_at # previous_oldest)

\* a run about to compare its third cursor with the cursor of the iteration
\* before it
C18_Witness ==
    /\ mode = "A"
    /\ fetches = 3
    /\ previous_oldest # None
    /\ pc = "A_loop"

\* C19: a Mode B run, whose watermark is the greatest created_at of the
\* store, writes only samples with created_at after the watermark and
\* leaves every entry the store held when the run started as it was.
C19_ModeBKeepsEntries ==
    mode = "B" =>
        /\ \A i \in 1..Len(written) :
              StrLess(latest_timestamp, written[i].created_at)
        /\ \A k \in DOMAIN store0 : k \in DOMAIN store /\ store[k] = store0[k]

\* C20: the greatest created_at of the store at the end of a run is not less
\* than it was at the end of the run before, and a Mode B run that wrote a
\* sample made it strictly greater.
C20_WatermarkMonotone ==
    RunEnded =>
        /\ StrLeq(LatestStored(store0), LatestStored(store))
        /\ (mode = "B" /\ written # <<>>) =>
              StrLess(LatestStored(store0), LatestStored(store))

=============================================================================
